---- MODULE Spec2Model ----
(***************************************************************************)
(* A model of src/olmar.py: the OLMAR (On-Line Moving Average Reversion)   *)
(* portfolio.  Four specifications share one set of variables:             *)
(*   SpecCtor    OLMAR.__init__                                            *)
(*   SpecWindow  OLMAR.get_window_prices                                   *)
(*   Spec        OLMAR.get_new_allocation (with predict_price_relatives    *)
(*               and compute_lambda)                                       *)
(*   SpecTune    OLMAR.tune_hyperparams                                    *)
(* Real numbers are exact rationals <<n, d>> in lowest terms with d > 0;   *)
(* d = 0 stands for the non-finite floats (<<0,0>> NaN, <<1,0>> +inf,      *)
(* <<-1,0>> -inf) that numpy produces on a division by zero.               *)
(***************************************************************************)
EXTENDS Integers, Sequences, FiniteSets, TLC

VARIABLES
    constructed,   \* "none" | "ok" | "error": outcome of OLMAR.__init__
    window,        \* self.window
    eps,           \* self.eps
    window_hist,   \* self.window_hist
    eps_hist,      \* self.eps_hist
    window_range,  \* self.window_range
    eps_range,     \* self.eps_range
    b,             \* self.b (owned by the Portfolio base)
    b_history,     \* self.b_history (owned by the Portfolio base)
    data_op,       \* self.data.get_op(relative=False): sequence of rows, day d at index d+1
    data_cl,       \* self.data.get_cl(relative=False)
    data_train,    \* self.data_train: [present, cl]
    sharpe,        \* Sharpe ratios of the trial runs evaluated so far (a deterministic function, sampled on demand)
    call,          \* the last call made on the instance and its arguments
    ret            \* what that call returned (or raised), with the locals the claims speak of

vars == <<constructed, window, eps, window_hist, eps_hist, window_range, eps_range,
          b, b_history, data_op, data_cl, data_train, sharpe, call, ret>>

----------------------------------------------------------------------------
(* Bounds of the model *)

NumStocks == 2      \* assets in the universe
MaxPrice == 2       \* prices of the allocation specification range over 0..MaxPrice
LiveDays == 5       \* live days of the window specification
MaxWindow == 5      \* largest window requested from get_window_prices
MaxTrain == 3       \* longest training series of the window specification
MaxCurDay == 11     \* latest day tune_hyperparams is called for
MaxTunes == 2       \* tuning steps after which the histories stop growing
MaxScore == 1       \* Sharpe ratios of the trial runs range over 0..MaxScore

Stocks == 1..NumStocks

\* Prices of the allocation specification; 0 is a missing price.
Prices == 0..MaxPrice

----------------------------------------------------------------------------
(* Exact rational arithmetic, with the floats' non-finite values *)

Abs(x) == IF x < 0 THEN -x ELSE x

Sign(x) == IF x < 0 THEN -1 ELSE IF x > 0 THEN 1 ELSE 0

RECURSIVE GCD(_, _)
GCD(x, y) == IF y = 0 THEN x ELSE GCD(y, x % y)

NaN == <<0, 0>>

Rat(n, d) ==
    IF d = 0 THEN <<Sign(n), 0>>
    ELSE LET g == GCD(Abs(n), Abs(d))
             s == IF d < 0 THEN -1 ELSE 1
         IN  <<(s * n) \div g, (s * d) \div g>>

RInt(k) == <<k, 1>>

IsFinite(x) == x[2] # 0

IsNaN(x) == x = NaN

RAdd(x, y) ==
    IF IsFinite(x) /\ IsFinite(y) THEN Rat(x[1] * y[2] + y[1] * x[2], x[2] * y[2])
    ELSE IF IsNaN(x) \/ IsNaN(y) THEN NaN
    ELSE IF ~IsFinite(x) /\ ~IsFinite(y) THEN (IF x = y THEN x ELSE NaN)
    ELSE IF IsFinite(x) THEN y ELSE x

RNeg(x) == <<-x[1], x[2]>>

RSub(x, y) == RAdd(x, RNeg(y))

RMul(x, y) ==
    IF IsFinite(x) /\ IsFinite(y) THEN Rat(x[1] * y[1], x[2] * y[2])
    ELSE IF IsNaN(x) \/ IsNaN(y) THEN NaN
    ELSE <<Sign(x[1]) * Sign(y[1]), 0>>     \* inf * 0 = NaN, inf * x = +-inf

\* IEEE division as numpy performs it: x / 0 is +-inf, 0 / 0 is NaN.
RDiv(x, y) ==
    IF IsFinite(x) /\ IsFinite(y) THEN Rat(x[1] * y[2], x[2] * y[1])
    ELSE IF IsNaN(x) \/ IsNaN(y) THEN NaN
    ELSE IF IsFinite(x) THEN RInt(0)
    ELSE IF IsFinite(y) THEN <<x[1] * (IF y[1] < 0 THEN -1 ELSE 1), 0>>
    ELSE NaN

\* Comparisons; every comparison with NaN is false.
RLt(x, y) ==
    IF IsNaN(x) \/ IsNaN(y) THEN FALSE
    ELSE IF IsFinite(x) /\ IsFinite(y) THEN x[1] * y[2] < y[1] * x[2]
    ELSE IF ~IsFinite(x) /\ ~IsFinite(y) THEN x[1] < y[1]
    ELSE IF IsFinite(x) THEN y[1] > 0 ELSE x[1] < 0

RLe(x, y) == ~IsNaN(x) /\ ~IsNaN(y) /\ (x = y \/ RLt(x, y))

RAbs(x) == <<Abs(x[1]), x[2]>>

RMax(x, y) == IF RLt(x, y) THEN y ELSE x

RMin(x, y) == IF RLt(y, x) THEN y ELSE x

RECURSIVE RSumOver(_, _)
RSumOver(f, S) ==
    IF S = {} THEN RInt(0)
    ELSE LET i == CHOOSE j \in S : TRUE
         IN  RAdd(f[i], RSumOver(f, S \ {i}))

----------------------------------------------------------------------------
(* Python slicing *)

Min(x, y) == IF x < y THEN x ELSE y

Max(x, y) == IF x < y THEN y ELSE x

\* A slice bound as Python resolves it against a sequence of n rows.
PyBound(i, n) == IF i < 0 THEN Max(i + n, 0) ELSE Min(i, n)

\* s[lo:hi]
PySlice(s, lo, hi) ==
    LET n == Len(s)
        lo0 == PyBound(lo, n)
        hi0 == PyBound(hi, n)
    IN  IF lo0 >= hi0 THEN <<>> ELSE SubSeq(s, lo0 + 1, hi0)

\* s[lo:]
PySliceFrom(s, lo) == PySlice(s, lo, Len(s))

----------------------------------------------------------------------------
(* Values the variables take where a specification does not use them *)

NoRow == [i \in Stocks |-> 0]

NoTrain == [present |-> FALSE, cl |-> <<>>]

NoCall == [op |-> "none"]

NoRet == [status |-> "none"]

----------------------------------------------------------------------------
(* OLMAR.get_window_prices *)

\* The part of the window taken from the training series and the start of
\* the live series (the else branch).
train_window(day, win) ==
    LET window_start == day - win                \* negative
        window_stop == day
    IN  IF window_stop = 0
        THEN PySliceFrom(data_train.cl, window_start)
        ELSE LET window_cl_past == PySliceFrom(data_train.cl, window_start)
                 window_cl_cur == PySlice(data_cl, 0, day)
             IN  window_cl_past \o window_cl_cur

\* get_window_prices without "window = day" when the full window is not available.
get_window_prices_unclamped(day, win) ==
    LET today_op == data_op[day + 1]
    IN  IF ~data_train.present \/ day >= win
        THEN [window |-> win, window_cl |-> PySlice(data_cl, day - win, day),
              today_op |-> today_op]
        ELSE [window |-> win, window_cl |-> train_window(day, win), today_op |-> today_op]

get_window_prices(day, win) ==
    LET today_op == data_op[day + 1]
    IN  IF ~data_train.present \/ day >= win
        THEN LET w == IF day < win THEN day ELSE win     \* full window not available
             IN  [window |-> w, window_cl |-> PySlice(data_cl, day - w, day),
                  today_op |-> today_op]
        ELSE \* use the training data to obtain part of the window
             [window |-> win, window_cl |-> train_window(day, win), today_op |-> today_op]

\* Market data of the window specification: every row differs from every
\* other, so that a row taken from the wrong place or in the wrong order shows.
RampClose(d) == [i \in Stocks |-> 10 * (d + 1) + i]

RampOpen(d) == [i \in Stocks |-> 10 * (d + 1) + i + 5]

RampTrain(k) == [i \in Stocks |-> 100 + 10 * k + i]

WindowInit ==
    /\ constructed = "ok"
    /\ window = 1 /\ eps = <<13, 10>>
    /\ window_hist = <<1>> /\ eps_hist = << <<13, 10>> >>
    /\ window_range = <<>> /\ eps_range = <<>>
    /\ b = NoRow /\ b_history = <<>>
    /\ data_op = [d \in 1..LiveDays |-> RampOpen(d - 1)]
    /\ data_cl = [d \in 1..LiveDays |-> RampClose(d - 1)]
    /\ \E t \in 0..MaxTrain :
          data_train = IF t = 0 THEN NoTrain
                       ELSE [present |-> TRUE, cl |-> [k \in 1..t |-> RampTrain(k)]]
    /\ sharpe = <<>>
    /\ call = NoCall
    /\ ret = NoRet

CallGetWindowPrices(day, win) ==
    /\ call' = [op |-> "get_window_prices", day |-> day, window |-> win]
    /\ ret' = get_window_prices(day, win)
    /\ UNCHANGED <<constructed, window, eps, window_hist, eps_hist, window_range,
                   eps_range, b, b_history, data_op, data_cl, data_train, sharpe>>

WindowNext == \E day \in 0..(LiveDays - 1), win \in 1..MaxWindow : CallGetWindowPrices(day, win)

SpecWindow == WindowInit /\ [][WindowNext]_vars

\* The rows of the live closes for days [lo, hi).
LiveCloses(lo, hi) == [k \in 1..(hi - lo) |-> data_cl[lo + k]]

\* The last n rows of the training closes, for n <= their number.
TrainTail(n) == [k \in 1..n |-> data_train.cl[Len(data_train.cl) - n + k]]

IsWindowCall == call.op = "get_window_prices"

\* C8: for day >= window the effective window is the requested one and the
\* matrix is the window live closes of days [day-window, day); for
\* day < window without a training series the effective window is day and the
\* matrix has day rows (none for day = 0).
C8_WindowLive ==
    IsWindowCall =>
        /\ call.day >= call.window =>
              /\ ret.window = call.window
              /\ Len(ret.window_cl) = call.window
              /\ ret.window_cl = LiveCloses(call.day - call.window, call.day)
        /\ (call.day < call.window /\ ~data_train.present) =>
              /\ ret.window = call.day
              /\ Len(ret.window_cl) = call.day
              /\ ret.window_cl = LiveCloses(0, call.day)

C8_Witness ==
    /\ IsWindowCall
    /\ ~data_train.present
    /\ call.day > 0 /\ call.day < call.window
    /\ ret.window = call.day
    /\ Len(ret.window_cl) = call.day

\* C9 (as claimed): with a training series and day < window, the returned
\* window length is the number of rows returned, and the rows are the last
\* window - day training closes followed by the live closes of [0, day),
\* whatever the length of the training series.
C9_TrainWindowClamped ==
    (IsWindowCall /\ data_train.present /\ call.day < call.window) =>
        /\ ret.window = Len(ret.window_cl)
        /\ ret.window_cl =
              TrainTail(Min(call.window - call.day, Len(data_train.cl)))
              \o LiveCloses(0, call.day)

----------------------------------------------------------------------------
(* OLMAR.predict_price_relatives, compute_lambda and get_new_allocation *)

LambdaCap == 100000

\* A vector as an array of values (each element computed once).
Vec(f) == f @@ <<>>

\* util.silent_divide: a division by a zero price gives zero.
silent_divide(x, y) == IF y = RInt(0) THEN RInt(0) ELSE RDiv(x, y)

\* util.get_avail_stocks and util.get_available_inds: the assets with an open price.
get_available_inds(today_op) == {i \in Stocks : today_op[i] > 0}

\* util.get_uniform_allocation: 1/n for each of the n available assets, 0 for the others.
get_uniform_allocation(cur_day_op) ==
    LET avail == get_available_inds(cur_day_op)
    IN  Vec([i \in Stocks |-> IF i \in avail THEN Rat(1, Cardinality(avail)) ELSE RInt(0)])

\* np.mean over a set of indexes: 0/0 = NaN over none.
MeanOver(f, S) == RDiv(RSumOver(f, S), RInt(Cardinality(S)))

Norm1(v) == RSumOver([i \in Stocks |-> RAbs(v[i])], Stocks)

predict_price_relatives(day) ==
    LET wp == get_window_prices(day, window)
        window_prices == wp.window_cl \o <<wp.today_op>>
        n == Len(window_prices)
        avg_prices == Vec([i \in Stocks |->
                              MeanOver([k \in 1..n |-> RInt(window_prices[k][i])], 1..n)])
    IN  Vec([i \in Stocks |-> silent_divide(avg_prices[i], RInt(wp.today_op[i]))])

\* The square of l2_norm: the sum of the squared deviations from the mean.
L2Squared(ppr, mean_ppr, avail_idxs) ==
    RSumOver([i \in Stocks |-> RMul(RSub(ppr[i], mean_ppr), RSub(ppr[i], mean_ppr))],
             avail_idxs)

\* np.dot(avail_b, ppr_avail)
DotAvail(ppr, avail_idxs) == RSumOver([i \in Stocks |-> RMul(b[i], ppr[i])], avail_idxs)

\* compute_lambda without the max(0, .) clip.
compute_lambda_unclipped(ppr, mean_ppr, avail_idxs) ==
    LET l2sq == L2Squared(ppr, mean_ppr, avail_idxs)
    IN  IF l2sq = RInt(0) THEN RInt(0)
        ELSE RDiv(RSub(eps, DotAvail(ppr, avail_idxs)), l2sq)

compute_lambda(ppr, mean_ppr, avail_idxs) ==
    LET l2sq == L2Squared(ppr, mean_ppr, avail_idxs)
    IN  IF l2sq = RInt(0) THEN RInt(0)
        ELSE LET predicted_under_eps == RSub(eps, DotAvail(ppr, avail_idxs))
             IN  RMax(RInt(0), RDiv(predicted_under_eps, l2sq))

\* Whether the weights returned are all finite; the code has no other outcome
\* (it raises nothing and flags nothing).
Status(alloc) == IF \A i \in Stocks : IsFinite(alloc[i]) THEN "ok" ELSE "nonfinite"

get_new_allocation(day, init) ==
    IF init /\ ~data_train.present
    THEN \* use uniform allocation
         LET alloc == get_uniform_allocation(data_op[day + 1])
         IN  [path |-> "uniform", status |-> Status(alloc), alloc |-> alloc]
    ELSE LET predicted_price_rel == predict_price_relatives(day)
             today_op == data_op[day + 1]
             avail_idxs == get_available_inds(today_op)
             mean_price_rel == MeanOver(predicted_price_rel, avail_idxs)
             lam == RMin(RInt(LambdaCap),
                         compute_lambda(predicted_price_rel, mean_price_rel, avail_idxs))
             new_b == Vec([i \in Stocks |->
                              IF RLt(RInt(0), predicted_price_rel[i])
                              THEN RAdd(b[i], RMul(lam, RSub(predicted_price_rel[i],
                                                            mean_price_rel)))
                              ELSE RInt(0)])
             sum_b == Norm1(new_b)
             alloc == Vec([i \in Stocks |-> RMul(RDiv(RInt(1), sum_b), new_b[i])])
         IN  [path |-> "olmar", status |-> Status(alloc), alloc |-> alloc,
              predicted_price_rel |-> predicted_price_rel, avail_idxs |-> avail_idxs,
              mean_price_rel |-> mean_price_rel,
              l2sq |-> L2Squared(predicted_price_rel, mean_price_rel, avail_idxs),
              dot |-> DotAvail(predicted_price_rel, avail_idxs),
              lam |-> lam, new_b |-> new_b, sum_b |-> sum_b]

\* Allocations of 1-norm 1: all on one asset, uniform, and one with a short position.
UnitAlloc(k) == [i \in Stocks |-> IF i = k THEN RInt(1) ELSE RInt(0)]

UniformAlloc == [i \in Stocks |-> Rat(1, NumStocks)]

ShortAlloc == [i \in Stocks |-> IF i = 1 THEN <<-1, 2>> ELSE IF i = 2 THEN <<1, 2>> ELSE RInt(0)]

AllocSet == {UnitAlloc(k) : k \in Stocks} \cup {UniformAlloc, ShortAlloc}

EpsSet == {<<11, 10>>, <<13, 10>>}

PriceRows == [Stocks -> Prices]

\* One live day, preceded or not by one training day.  The closes of the
\* live day are never read on that day; they are taken equal to its opens.
Init ==
    /\ constructed = "ok"
    /\ window = 1
    /\ eps \in EpsSet
    /\ window_hist = <<window>> /\ eps_hist = <<eps>>
    /\ window_range = <<>> /\ eps_range = <<>>
    /\ b \in AllocSet
    /\ b_history = <<>>
    /\ data_op \in {<<r>> : r \in PriceRows}
    /\ data_cl = data_op
    /\ data_train \in {NoTrain} \cup {[present |-> TRUE, cl |-> <<r>>] : r \in PriceRows}
    /\ sharpe = <<>>
    /\ call = NoCall
    /\ ret = NoRet

CallGetNewAllocation(day, init) ==
    /\ call' = [op |-> "get_new_allocation", day |-> day, init |-> init]
    /\ ret' = get_new_allocation(day, init)
    /\ UNCHANGED <<constructed, window, eps, window_hist, eps_hist, window_range,
                   eps_range, b, b_history, data_op, data_cl, data_train, sharpe>>

Next == \E day \in 0..(Len(data_op) - 1), init \in BOOLEAN : CallGetNewAllocation(day, init)

Spec == Init /\ [][Next]_vars

IsAllocCall == call.op = "get_new_allocation"

\* C1 (as claimed): every allocation returned has 1-norm 1.
C1_UnitNorm == IsAllocCall => Norm1(ret.alloc) = RInt(1)

\* C2 (as claimed): a zero 1-norm of the unnormalized allocation is signalled,
\* not divided by.
C2_ZeroNormSignalled ==
    (IsAllocCall /\ ret.path = "olmar" /\ ret.sum_b = RInt(0)) => ret.status = "signalled"

IsOlmarCall == IsAllocCall /\ ret.path = "olmar"

C10_ProjectionAndUnavailableZero ==
    IsOlmarCall =>
        /\ \A i \in Stocks :
              ret.new_b[i] =
                 IF RLt(RInt(0), ret.predicted_price_rel[i])
                 THEN RAdd(b[i], RMul(ret.lam,
                          RSub(ret.predicted_price_rel[i],
                               MeanOver(ret.predicted_price_rel,
                                        {j \in Stocks : data_op[call.day + 1][j] > 0}))))
                 ELSE RInt(0)
        /\ \A i \in Stocks : data_op[call.day + 1][i] = 0 => ret.alloc[i] = RInt(0)

----------------------------------------------------------------------------
(* OLMAR.tune_hyperparams *)

tune_duration == 10

\* itertools.product(window_range, eps_range) as a list: the window varies slowest.
hyp_combos ==
    LET nw == Len(window_range)
        ne == Len(eps_range)
    IN  [k \in 1..(nw * ne) |->
            <<window_range[((k - 1) \div ne) + 1], eps_range[((k - 1) % ne) + 1]>>]

\* A trial built from the instance's own window in place of the candidate's.
TrialArgs_own_window(win, e, cur_day) ==
    [start |-> cur_day - tune_duration, stop |-> cur_day,
     init_b |-> b_history[cur_day - tune_duration + 1], window |-> window, eps |-> e]

\* The arguments of the trial OLMAR(market_data=self.data, start=start_day,
\* stop=cur_day, init_b=init_b, window=win, eps=eps, tune_interval=None); the
\* market data is the instance's, no training series is passed.
TrialArgs(win, e, cur_day) ==
    [start |-> cur_day - tune_duration, stop |-> cur_day,
     init_b |-> b_history[cur_day - tune_duration + 1], window |-> win, eps |-> e]

\* max over a list of numbers
MaxOf(xs) == CHOOSE m \in {xs[k] : k \in DOMAIN xs} : \A k \in DOMAIN xs : xs[k] <= m

\* The last index of the maximum.
BestIndex_last(ratios) ==
    CHOOSE k \in DOMAIN ratios :
        \E mx \in {MaxOf(ratios)} :
            ratios[k] = mx /\ \A j \in DOMAIN ratios : j > k => ratios[j] # mx

\* sharpe_ratios.index(max(sharpe_ratios)): the first index of the maximum.
BestIndex(ratios) ==
    CHOOSE k \in DOMAIN ratios :
        \E mx \in {MaxOf(ratios)} :
            ratios[k] = mx /\ \A j \in DOMAIN ratios : j < k => ratios[j] # mx

\* Tuning from day tune_duration on.
ShouldTune_inclusive(cur_day) == cur_day >= tune_duration

ShouldTune(cur_day) == cur_day > tune_duration

\* Sharpe ratios a trial run can have.
Scores == 0..MaxScore

\* Days tune_hyperparams is called for.
CurDays == (tune_duration - 1)..MaxCurDay

\* Allocation histories: the uniform allocation every day, or all on one
\* asset, another asset each day.
HistDays == 1..(MaxCurDay + 1)

BHistories ==
    {[d \in HistDays |-> UniformAlloc],
     [d \in HistDays |-> UnitAlloc(((d - 1) % NumStocks) + 1)]}

TuneInit ==
    /\ constructed = "ok"
    /\ window = 10 /\ eps = <<13, 10>>
    /\ window_hist = <<window>> /\ eps_hist = <<eps>>
    /\ window_range = <<1, 2>>
    /\ eps_range = << <<6, 5>>, <<3, 2>> >>
    /\ b = UniformAlloc
    /\ b_history \in BHistories
    /\ data_op = <<>> /\ data_cl = <<>> /\ data_train = NoTrain
    /\ sharpe = <<>>
    /\ call = NoCall
    /\ ret = NoRet

\* cur_portfolio.run(start_day, cur_day) and util.empirical_sharpe_ratio of
\* its dollars history: a deterministic function of the trial's arguments and
\* the (unchanging) market data, whose value is drawn when a trial is first run.
TuneHyperparams(cur_day) ==
    /\ call' = [op |-> "tune_hyperparams", cur_day |-> cur_day]
    /\ IF ~ShouldTune(cur_day)
       THEN \* not worth tuning yet
            /\ ret' = [tuned |-> FALSE]
            /\ UNCHANGED <<constructed, window, eps, window_hist, eps_hist, window_range,
                           eps_range, b, b_history, data_op, data_cl, data_train, sharpe>>
       ELSE /\ Len(window_hist) <= MaxTunes
            /\ \E combos \in {hyp_combos} :
               \E keys \in {[k \in DOMAIN combos |->
                               TrialArgs(combos[k][1], combos[k][2], cur_day)]} :
               \E fresh \in {{keys[k] : k \in DOMAIN keys} \ DOMAIN sharpe} :
               \E drawn \in [fresh -> Scores] :
               \E known \in {[a \in DOMAIN sharpe \cup fresh |->
                                IF a \in fresh THEN drawn[a] ELSE sharpe[a]]} :
               \E sharpe_ratios \in {[k \in DOMAIN keys |-> known[keys[k]]]} :
               \E best \in {combos[BestIndex(sharpe_ratios)]} :
                  /\ sharpe' = known
                  /\ window' = best[1]
                  /\ eps' = best[2]
                  /\ eps_hist' = Append(eps_hist, best[2])
                  /\ window_hist' = Append(window_hist, best[1])
                  /\ ret' = [tuned |-> TRUE, start_day |-> cur_day - tune_duration,
                             hyp_combos |-> combos,
                             sharpe_ratios |-> sharpe_ratios,
                             best |-> best]
            /\ UNCHANGED <<constructed, window_range, eps_range, b, b_history,
                           data_op, data_cl, data_train>>

\* The Portfolio base rebalances: the current allocation changes.
Rebalance ==
    /\ b' \in {UniformAlloc, ShortAlloc} \ {b}
    /\ UNCHANGED <<constructed, window, eps, window_hist, eps_hist, window_range,
                   eps_range, b_history, data_op, data_cl, data_train, sharpe, call, ret>>

TuneNext ==
    \/ \E cur_day \in CurDays : TuneHyperparams(cur_day)
    \/ Rebalance

SpecTune == TuneInit /\ [][TuneNext]_vars

IsTuneCall == call.op = "tune_hyperparams"

\* The step is a call of tune_hyperparams (a rebalance leaves call and the histories alone).
TuneStep == call'.op = "tune_hyperparams" /\ (call' # call \/ window_hist' # window_hist)

HypersUnchanged == UNCHANGED <<window, eps, window_hist, eps_hist>>

OneAppended ==
    /\ Len(window_hist') = Len(window_hist) + 1
    /\ Len(eps_hist') = Len(eps_hist) + 1

\* C4 (as claimed): a call with cur_day < 10 changes nothing, and a call with
\* cur_day >= 10 runs the grid search and appends one value to each history.
C4_TunesFromDayTen ==
    [][TuneStep =>
          /\ call'.cur_day < tune_duration => (HypersUnchanged /\ ~ret'.tuned)
          /\ call'.cur_day >= tune_duration => (OneAppended /\ ret'.tuned)]_vars

\* C4 (amended): a call with cur_day <= 10 changes nothing, and a call with
\* cur_day > 10 runs the grid search over the trailing 10 days and appends
\* one value to each history.
C4_TunesAfterDayTen ==
    [][TuneStep =>
          /\ call'.cur_day <= tune_duration => (HypersUnchanged /\ ~ret'.tuned)
          /\ call'.cur_day > tune_duration =>
                /\ OneAppended
                /\ ret'.tuned
                /\ ret'.start_day = call'.cur_day - tune_duration
                /\ Len(ret'.sharpe_ratios) = Len(window_range) * Len(eps_range)]_vars

C4_Witness ==
    /\ IsTuneCall
    /\ call.cur_day = tune_duration
    /\ ~ret.tuned
    /\ window_hist = <<10>>
    /\ window = 10

\* The Sharpe ratio of the trial for the i-th window and the j-th epsilon.
ScoreOf(i, j, cur_day) == sharpe[TrialArgs(window_range[i], eps_range[j], cur_day)]

\* Pair (i, j) comes before pair (i2, j2) in the product's enumeration.
Before(i, j, i2, j2) == i < i2 \/ (i = i2 /\ j < j2)

\* The pair adopted is (window_range[i], eps_range[j]).
Adopted(i, j) ==
    /\ window = window_range[i]
    /\ eps = eps_range[j]
    /\ window_hist[Len(window_hist)] = window_range[i]
    /\ eps_hist[Len(eps_hist)] = eps_range[j]
    /\ ret.best = <<window_range[i], eps_range[j]>>

\* C5: after a tuning step the pair adopted has the maximal trial Sharpe ratio
\* and is the first such pair of window_range x eps_range; it is the current
\* (window, eps) and the last element of both histories, which grew by one
\* element and are otherwise unchanged.
C5_AdoptsFirstBest ==
    [][(TuneStep /\ ret'.tuned) =>
          /\ (\E i \in DOMAIN window_range, j \in DOMAIN eps_range :
                /\ Adopted(i, j)
                /\ \A i2 \in DOMAIN window_range, j2 \in DOMAIN eps_range :
                      /\ ScoreOf(i2, j2, call.cur_day) <= ScoreOf(i, j, call.cur_day)
                      /\ Before(i2, j2, i, j) =>
                            ScoreOf(i2, j2, call.cur_day) < ScoreOf(i, j, call.cur_day))'
          /\ window_hist' = Append(window_hist, window')
          /\ eps_hist' = Append(eps_hist, eps')]_vars

C5_Witness ==
    /\ IsTuneCall
    /\ ret.tuned
    /\ ret.sharpe_ratios = <<0, 1, 0, 1>>
    /\ window = 1 /\ eps = <<3, 2>>
    /\ window_hist = <<10, 1>>
    /\ eps_hist = << <<13, 10>>, <<3, 2>> >>

\* C6: a tuning run on the day of the previous tuning run, the allocation
\* history and the grid being what they were, selects the pair that run
\* selected, whatever the instance's window, eps and allocation have become;
\* and a call of tune_hyperparams leaves the allocation, the allocation
\* history, the candidate ranges and the market data as they were.
C6_RerunSelectsSame ==
    [][TuneStep =>
          /\ UNCHANGED <<b, b_history, window_range, eps_range, data_op, data_cl, data_train>>
          /\ (IsTuneCall /\ ret.tuned /\ ret'.tuned /\ call'.cur_day = call.cur_day) =>
                (ret'.best = ret.best /\ window' = ret.best[1] /\ eps' = ret.best[2])]_vars

C6_Witness ==
    /\ IsTuneCall
    /\ ret.tuned
    /\ call.cur_day = tune_duration + 1
    /\ Len(window_hist) = 3
    /\ window_hist[3] = window_hist[2]
    /\ eps_hist[3] = eps_hist[2]
    /\ b # UniformAlloc

----------------------------------------------------------------------------
(* OLMAR.__init__ *)

\* Before __init__ assigns them the attributes hold these values.
UnsetWindow == [set |-> FALSE]

UnsetEps == NaN

\* Epsilons passed to the constructor, on both sides of 1.
EpsArgs == {<<1, 2>>, <<1, 1>>, <<11, 10>>, <<13, 10>>, <<2, 1>>}

WindowArgs == (-1)..MaxWindow

\* past_results_dir: None, or a directory whose hyperparameter file holds
\* these values (util.load_hyperparams), which __init__ does not validate.
PastArgs ==
    {[present |-> FALSE, Window |-> 0, Epsilon |-> NaN]}
    \cup {[present |-> TRUE, Window |-> w, Epsilon |-> e] : w \in {0, 7}, e \in {<<1, 1>>, <<3, 2>>}}

DefaultWindowRange == <<5, 8, 11, 14, 17, 20, 23, 26, 29>>

DefaultEpsRange == [k \in 1..20 |-> Rat(11 + 2 * (k - 1), 10)]

CtorInit ==
    /\ constructed = "none"
    /\ window = UnsetWindow /\ eps = UnsetEps
    /\ window_hist = <<>> /\ eps_hist = <<>>
    /\ window_range = <<>> /\ eps_range = <<>>
    /\ b = NoRow /\ b_history = <<>>
    /\ data_op = <<>> /\ data_cl = <<>> /\ data_train = NoTrain
    /\ sharpe = <<>>
    /\ call = NoCall
    /\ ret = NoRet

\* The validation with eps < 1 for eps <= 1.
ConfigError_strict(eps_arg, window_arg) ==
    IF RLt(eps_arg, RInt(1)) THEN "Epsilon must be > 1."
    ELSE IF window_arg < 1 THEN "Window length must be at least 1, and it is recommended that the window be >= 3."
    ELSE ""

\* The two checks that open __init__: the message raised, "" when none is.
ConfigError(eps_arg, window_arg) ==
    IF RLe(eps_arg, RInt(1)) THEN "Epsilon must be > 1."
    ELSE IF window_arg < 1 THEN "Window length must be at least 1, and it is recommended that the window be >= 3."
    ELSE ""

Construct(eps_arg, window_arg, past) ==
    /\ constructed = "none"
    /\ call' = [op |-> "__init__", eps |-> eps_arg, window |-> window_arg, past |-> past]
    /\ IF ConfigError(eps_arg, window_arg) # ""
       THEN /\ constructed' = "error"
            /\ ret' = [status |-> "config_error", message |-> ConfigError(eps_arg, window_arg)]
            /\ UNCHANGED <<window, eps, window_hist, eps_hist, window_range, eps_range>>
       ELSE LET w == IF past.present THEN past.Window ELSE window_arg
                e == IF past.present THEN past.Epsilon ELSE eps_arg
            IN  /\ constructed' = "ok"
                /\ window' = w
                /\ eps' = e
                /\ window_hist' = <<w>>
                /\ eps_hist' = <<e>>
                /\ window_range' = DefaultWindowRange
                /\ eps_range' = DefaultEpsRange
                /\ ret' = [status |-> "ok", message |-> ""]
    /\ UNCHANGED <<b, b_history, data_op, data_cl, data_train, sharpe>>

CtorNext == \E eps_arg \in EpsArgs, window_arg \in WindowArgs, past \in PastArgs :
               Construct(eps_arg, window_arg, past)

SpecCtor == CtorInit /\ [][CtorNext]_vars

IsCtorCall == call.op = "__init__"

NothingSet ==
    /\ window = UnsetWindow /\ eps = UnsetEps
    /\ window_hist = <<>> /\ eps_hist = <<>>
    /\ window_range = <<>> /\ eps_range = <<>>

\* C3: a construction with eps <= 1 or window < 1 ends in the configuration
\* error with no attribute of the instance set, and a construction with
\* eps > 1 and window >= 1 does not raise it.
C3_ConstructionValidated ==
    IsCtorCall =>
        /\ (RLe(call.eps, RInt(1)) \/ call.window < 1) =>
              (constructed = "error" /\ ret.status = "config_error" /\ NothingSet)
        /\ (RLt(RInt(1), call.eps) /\ call.window >= 1) =>
              (constructed = "ok" /\ ret.status = "ok" /\ window_hist = <<window>>
               /\ eps_hist = <<eps>>)

C3_Witness ==
    /\ IsCtorCall
    /\ call.eps = RInt(1)
    /\ call.window = 1
    /\ constructed = "error"
    /\ NothingSet

====
